---- MODULE Spec2Model ----
(***************************************************************************)
(* Client side of SRP-6a (bsrp/client.py): generate_a_pair,                *)
(* process_challenge and verify_session, driven by one caller through      *)
(* successive authentication attempts against an honest or an adversarial  *)
(* server.  The collaborators of bsrp/utils.py (hash, padding, integer     *)
(* encoding, key and message derivation, group parameters) are modelled    *)
(* from their contracts, over a toy group and a toy hash.                  *)
(***************************************************************************)
EXTENDS Integers, Sequences, FiniteSets, TLC

VARIABLES grp, cred, state, attempt, rand, keys, srv, chal, evid, ver, calls, first

vars == <<grp, cred, state, attempt, rand, keys, srv, chal, evid, ver, calls, first>>

\* ------------------------------------------------------------------ bounds

\* largest value of the low-order byte drawn from the random source
MaxRand == 2
\* the honest server's private ephemeral b ranges over 1..MaxServerB
MaxServerB == 2
\* number of authentication attempts one run makes
MaxAttempts == 3

\* ------------------------------------------------------- program constants

\* number of random bytes requested by generate_a_pair
RandLen == 32
\* radix of a byte string read as a big-endian integer
ByteBase == 256
\* the toy hash: digest length in bytes, and the modulus, multiplier and
\* initial value of its running value
HashLen == 2
HashMod == 7
HashMult == 3
HashSeed == 1

None == [tag |-> "none"]

\* toy groups: N a safe prime, g a primitive root modulo N
Groups == { [N |-> 23, g |-> 5], [N |-> 263, g |-> 5] }

Identities == { <<97>> }
Passwords == { <<115>>, <<112, 119>> }
Salts == { <<1, 2>> }

\* ------------------------------------------------- integers and byte strings

RECURSIVE BitLength(_)
BitLength(n) == IF n <= 0 THEN 0 ELSE 1 + BitLength(n \div 2)

RECURSIVE ToBytes(_)
ToBytes(n) == IF n <= 0 THEN <<>> ELSE Append(ToBytes(n \div ByteBase), n % ByteBase)

RECURSIVE ToInt(_)
ToInt(bytes) ==
    IF bytes = <<>> THEN 0
    ELSE ByteBase * ToInt(SubSeq(bytes, 1, Len(bytes) - 1)) + bytes[Len(bytes)]

Zeros(n) == [i \in 1..n |-> 0]

\* Pad(integer, width_bytes): big-endian, zero-left-padded
PadFits(v, width) == v >= 0 /\ Len(ToBytes(v)) <= width
Pad(v, width) == Zeros(width - Len(ToBytes(v))) \o ToBytes(v)

RECURSIVE Concat(_)
Concat(args) == IF args = <<>> THEN <<>> ELSE Head(args) \o Concat(Tail(args))

RECURSIVE HashRun(_, _)
HashRun(h, data) ==
    IF data = <<>> THEN h
    ELSE HashRun((h * HashMult + Head(data) + 1) % HashMod, Tail(data))

\* Hash(arg1, arg2, ...): the arguments concatenated, a fixed-length digest
Hash(args) == Pad(HashRun(HashSeed, Concat(args)), HashLen)

DeriveX(salt, identity, password) ==
    ToInt(Hash(<<salt, Hash(<<identity, <<58>>, password>>)>>))

DeriveM(generator, prime, identity, salt, A, B, session_key) ==
    Hash(<<ToBytes(generator), ToBytes(prime), identity, salt,
           ToBytes(A), ToBytes(B), session_key>>)

\* pow(base, exp, mod) of Python for exp >= 0 and mod > 0: a result in 0..mod-1
RECURSIVE PyPow(_, _, _)
PyPow(base, exp, mod) ==
    IF exp = 0 THEN 1 % mod
    ELSE LET h == PyPow(base, exp \div 2, mod)
             sq == (h * h) % mod
         IN IF exp % 2 = 1 THEN (sq * (base % mod)) % mod ELSE sq

RandomBytes(n) == { [i \in 1..n |-> IF i = n THEN r ELSE 0] : r \in 0..MaxRand }

\* --------------------------------------------------------- bsrp/client.py

\* A = pow(a, generator, prime): the base and the exponent exchanged
generate_a_pair_swapped(random_bytes, prime, generator) ==
    LET a == ToInt(random_bytes)
        A == PyPow(a, generator, prime)
    IN [a |-> a, A |-> A]

generate_a_pair(random_bytes, prime, generator) ==
    LET a == ToInt(random_bytes)
        A == PyPow(generator, a, prime)
    IN [a |-> a, A |-> A]

PaddingWidth(prime) == BitLength(prime)

\* a hasher shared between calls and never reset: the digest depends on the
\* number of calls made so far
Scrambler_shared(padded_A, padded_B) ==
    ToInt(Hash(<<Zeros(attempt - 1), padded_A, padded_B>>))

Scrambler(padded_A, padded_B) == ToInt(Hash(<<padded_A, padded_B>>))

Multiplier(prime, padded_generator) == ToInt(Hash(<<ToBytes(prime), padded_generator>>))

\* the check of B left out
SafetyCheck_no_B(B, u) == IF u = 0 THEN "u" ELSE "ok"

\* the check of u left out
SafetyCheck_no_u(B, u) == IF B = 0 THEN "B" ELSE "ok"

SafetyCheck(B, u) ==
    IF B = 0 THEN "B"
    ELSE IF u = 0 THEN "u"
    ELSE "ok"

\* a remainder that keeps the sign of the dividend, as in C
TruncMod(v, m) == IF v < 0 THEN 0 - ((0 - v) % m) ELSE v % m

\* the base reduced with a truncating remainder before the exponentiation
Premaster_trunc(generator, x, prime, B, k, a, u) ==
    LET gx == PyPow(generator, x, prime)
        t1 == B - k * gx
        t2 == a + u * x
        r == TruncMod(t1, prime)
        S == IF r < 0 THEN 0 - PyPow(0 - r, t2, prime) ELSE PyPow(r, t2, prime)
    IN [gx |-> gx, t1 |-> t1, t2 |-> t2, S |-> S]

Premaster(generator, x, prime, B, k, a, u) ==
    LET gx == PyPow(generator, x, prime)
        t1 == B - k * gx
        t2 == a + u * x
        S == PyPow(t1, t2, prime)
    IN [gx |-> gx, t1 |-> t1, t2 |-> t2, S |-> S]

process_challenge(identity, password, salt, a, A, B, prime, generator) ==
    LET width == PaddingWidth(prime)
        padded_generator == Pad(generator, width)
        padded_A == Pad(A, width)
        padded_B == Pad(B, width)
        u == Scrambler(padded_A, padded_B)
        x == DeriveX(salt, identity, password)
        k == Multiplier(prime, padded_generator)
        pre == [width |-> width, padded_generator |-> padded_generator,
                padded_A |-> padded_A, padded_B |-> padded_B,
                u |-> u, x |-> x, k |-> k]
        check == SafetyCheck(B, u)
    IN IF ~(PadFits(generator, width) /\ PadFits(A, width) /\ PadFits(B, width))
       THEN [exc |-> "PadError", ret |-> None, locals |-> [width |-> width]]
       ELSE IF check # "ok"
       THEN [exc |-> "SafetyException", ret |-> None, locals |-> pre]
       ELSE LET p == Premaster(generator, x, prime, B, k, a, u)
                session_key == Hash(<<ToBytes(p.S)>>)
                M == DeriveM(generator, prime, identity, salt, A, B, session_key)
            IN [exc |-> "none",
                ret |-> [M |-> M, session_key |-> session_key],
                locals |-> [width |-> width, padded_generator |-> padded_generator,
                            padded_A |-> padded_A, padded_B |-> padded_B,
                            u |-> u, x |-> x, k |-> k,
                            gx |-> p.gx, t1 |-> p.t1, t2 |-> p.t2, S |-> p.S,
                            session_key |-> session_key, M |-> M]]

\* only the lengths of the two evidence values compared
verify_session_len(A, M, session_key, server_H_AMK) ==
    LET client_H_AMK == Hash(<<ToBytes(A), M, session_key>>)
    IN IF Len(client_H_AMK) # Len(server_H_AMK)
       THEN [exc |-> "EvidenceException", ret |-> None]
       ELSE [exc |-> "none", ret |-> [H_AMK |-> client_H_AMK]]

verify_session(A, M, session_key, server_H_AMK) ==
    LET client_H_AMK == Hash(<<ToBytes(A), M, session_key>>)
    IN IF client_H_AMK # server_H_AMK
       THEN [exc |-> "EvidenceException", ret |-> None]
       ELSE [exc |-> "none", ret |-> [H_AMK |-> client_H_AMK]]

\* ------------------------------------------------------------- the server

ByteLength(n) == (BitLength(n) + 7) \div 8

\* an SRP-6a server holding the verifier v = g^x mod N: it pads to the byte
\* length of N, sends B = (k*v + g^b) mod N and computes S = (A * v^u)^b mod N
HonestServer(b, A, c, N, g) ==
    LET w == ByteLength(N)
        x == DeriveX(c.salt, c.identity, c.password)
        v == PyPow(g, x, N)
        k == ToInt(Hash(<<ToBytes(N), Pad(g, w)>>))
        B == (k * v + PyPow(g, b, N)) % N
        u == ToInt(Hash(<<Pad(A, w), Pad(B, w)>>))
        S == PyPow(A * PyPow(v, u, N), b, N)
        K == Hash(<<ToBytes(S)>>)
        M == DeriveM(g, N, c.identity, c.salt, A, B, K)
    IN [honest |-> TRUE, b |-> b, B |-> B, k |-> k, u |-> u, S |-> S,
        session_key |-> K, M |-> M, H_AMK |-> Hash(<<ToBytes(A), M, K>>)]

\* the public values an adversarial server may send
AdversaryBs(N) == {0, 1, N - 1, N, 2 * N}

\* evidence values an adversarial server may send: the right one, one byte
\* changed, one byte short
Evidences(h) ==
    { h,
      [h EXCEPT ![Len(h)] = (h[Len(h)] + 1) % ByteBase],
      SubSeq(h, 1, Len(h) - 1) }

\* ------------------------------------------------------------ the session

Init ==
    /\ grp \in Groups
    /\ cred \in [identity : Identities, password : Passwords, salt : Salts]
    /\ state = "Start"
    /\ attempt = 1
    /\ rand = <<>>
    /\ keys = None
    /\ srv = None
    /\ chal = None
    /\ evid = None
    /\ ver = None
    /\ calls = <<>>
    /\ first = None

GenerateAPair ==
    /\ state = "Start"
    /\ \E random_bytes \in RandomBytes(RandLen) :
          /\ rand' = random_bytes
          /\ keys' = generate_a_pair(random_bytes, grp.N, grp.g)
    /\ state' = "AwaitingChallenge"
    /\ calls' = Append(calls, "generate_a_pair")
    /\ UNCHANGED <<grp, cred, attempt, srv, chal, evid, ver, first>>

ServerChallenge ==
    /\ state = "AwaitingChallenge"
    /\ srv = None
    /\ \E b \in 1..MaxServerB : srv' = HonestServer(b, keys.A, cred, grp.N, grp.g)
    /\ UNCHANGED <<grp, cred, state, attempt, rand, keys, chal, evid, ver, calls, first>>

AdversaryChallenge ==
    /\ state = "AwaitingChallenge"
    /\ srv = None
    /\ \E B \in AdversaryBs(grp.N) : srv' = [honest |-> FALSE, B |-> B]
    /\ UNCHANGED <<grp, cred, state, attempt, rand, keys, chal, evid, ver, calls, first>>

ProcessChallenge ==
    /\ state = "AwaitingChallenge"
    /\ srv # None
    /\ \E A \in {keys.A, 0, grp.N} :
       \E res \in {process_challenge(cred.identity, cred.password, cred.salt,
                                     keys.a, A, srv.B, grp.N, grp.g)} :
          LET args == [identity |-> cred.identity, password |-> cred.password,
                       salt |-> cred.salt, a |-> keys.a, A |-> A, B |-> srv.B]
          IN /\ chal' = [args |-> args, res |-> res]
             /\ first' = IF first = None
                         THEN [args |-> args, exc |-> res.exc, ret |-> res.ret]
                         ELSE first
             /\ state' = IF res.exc = "none" THEN "AwaitingServerEvidence" ELSE "Aborted"
    /\ calls' = Append(calls, "process_challenge")
    /\ UNCHANGED <<grp, cred, attempt, rand, keys, srv, evid, ver>>

ServerEvidence ==
    /\ state = "AwaitingServerEvidence"
    /\ evid = None
    /\ srv.honest
    /\ chal.args.A = keys.A
    /\ chal.res.ret.M = srv.M
    /\ evid' = [server_H_AMK |-> srv.H_AMK]
    /\ UNCHANGED <<grp, cred, state, attempt, rand, keys, srv, chal, ver, calls, first>>

AdversaryEvidence ==
    /\ state = "AwaitingServerEvidence"
    /\ evid = None
    /\ ~srv.honest
    /\ \E h \in Evidences(Hash(<<ToBytes(chal.args.A), chal.res.ret.M,
                                 chal.res.ret.session_key>>)) :
          evid' = [server_H_AMK |-> h]
    /\ UNCHANGED <<grp, cred, state, attempt, rand, keys, srv, chal, ver, calls, first>>

VerifySession ==
    /\ state = "AwaitingServerEvidence"
    /\ evid # None
    /\ \E res \in {verify_session(chal.args.A, chal.res.ret.M,
                                   chal.res.ret.session_key, evid.server_H_AMK)} :
          /\ ver' = [server_H_AMK |-> evid.server_H_AMK, res |-> res]
          /\ state' = IF res.exc = "none" THEN "Authenticated" ELSE "Aborted"
    /\ calls' = Append(calls, "verify_session")
    /\ UNCHANGED <<grp, cred, attempt, rand, keys, srv, chal, evid, first>>

NewAttempt ==
    /\ state \in {"Authenticated", "Aborted", "AwaitingServerEvidence"}
    /\ attempt < MaxAttempts
    /\ attempt' = attempt + 1
    /\ state' = "Start"
    /\ rand' = <<>>
    /\ keys' = None
    /\ srv' = None
    /\ chal' = None
    /\ evid' = None
    /\ ver' = None
    /\ calls' = <<>>
    /\ UNCHANGED <<grp, cred, first>>

Next ==
    \/ GenerateAPair
    \/ ServerChallenge
    \/ AdversaryChallenge
    \/ ProcessChallenge
    \/ ServerEvidence
    \/ AdversaryEvidence
    \/ VerifySession
    \/ NewAttempt

Spec == Init /\ [][Next]_vars

\* ------------------------------------------------------------ properties

\* v mod m with a result in 0..m-1, whatever the sign of v
NonNegMod(v, m) == IF v >= 0 THEN v % m ELSE (m - ((0 - v) % m)) % m

\* (base^exp) mod m by repeated multiplication, for base in 0..m-1
RECURSIVE ModExpRef(_, _, _)
ModExpRef(base, exp, m) ==
    IF exp = 0 THEN 1 % m ELSE (base * ModExpRef(base, exp - 1, m)) % m

Called == chal # None /\ chal.res.exc # "PadError"

PremasterNames == {"gx", "t1", "t2", "S", "session_key", "M"}

CallOrder == <<"generate_a_pair", "process_challenge", "verify_session">>

ClientEvidence ==
    Hash(<<ToBytes(chal.args.A), chal.res.ret.M, chal.res.ret.session_key>>)

\* C1: process_challenge raises SafetyException, and returns nothing, for
\* every B with B mod N = 0 (B = 0, N, 2N, ...).
C1_AbortsWhenBZeroModN ==
    (Called /\ chal.args.B % grp.N = 0)
        => (chal.res.exc = "SafetyException" /\ chal.res.ret = None)

\* C2: when B = 0 or u = 0, process_challenge raises SafetyException before
\* g^x mod N, t1, t2, S, session_key or M is computed, and returns nothing.
C2_ChecksBeforePremaster ==
    (Called /\ (chal.args.B = 0 \/ chal.res.locals.u = 0))
        => /\ chal.res.exc = "SafetyException"
           /\ chal.res.ret = None
           /\ (DOMAIN chal.res.locals) \cap PremasterNames = {}

C2_Witness ==
    /\ Called
    /\ chal.args.B # 0
    /\ chal.res.locals.u = 0
    /\ chal.res.exc = "SafetyException"

\* C3: verify_session returns Hash(A, M, session_key) exactly when the
\* server's evidence equals it, and raises EvidenceException, returning
\* nothing, for every other evidence value.
C3_EvidenceChecked ==
    ver # None =>
        /\ (ver.server_H_AMK = ClientEvidence
              => ver.res = [exc |-> "none", ret |-> [H_AMK |-> ClientEvidence]])
        /\ (ver.server_H_AMK # ClientEvidence
              => ver.res = [exc |-> "EvidenceException", ret |-> None])
        /\ (ver.res.exc = "none" => ver.server_H_AMK = ClientEvidence)

C3_Witness ==
    /\ ver # None
    /\ Len(ver.server_H_AMK) = Len(ClientEvidence)
    /\ ver.server_H_AMK # ClientEvidence
    /\ ver.res.exc = "EvidenceException"

\* C4: against an honest SRP-6a server with the same group, hash and
\* credentials, process_challenge returns, the client's premaster secret and
\* M equal the server's, and verify_session authenticates.
C4_HonestExchangeAuthenticates ==
    (srv # None /\ srv.honest /\ chal # None /\ chal.args.A = keys.A)
        => /\ chal.res.exc = "none"
           /\ chal.res.locals.S = srv.S
           /\ chal.res.ret.M = srv.M
           /\ (ver # None => state = "Authenticated")

C7_WidthIsByteLength ==
    Called =>
        /\ chal.res.locals.width = ByteLength(grp.N)
        /\ Len(chal.res.locals.padded_generator) = ByteLength(grp.N)
        /\ Len(chal.res.locals.padded_A) = ByteLength(grp.N)
        /\ Len(chal.res.locals.padded_B) = ByteLength(grp.N)

\* C8: whenever the safety checks pass, S = ((t1 mod N)^t2) mod N with the
\* non-negative remainder, also for a negative t1 = B - k*(g^x mod N); S lies
\* in 0..N-1 and t2 = a + u*x is not reduced.
C8_PremasterNormalised ==
    (chal # None /\ chal.res.exc = "none") =>
        LET l == chal.res.locals
        IN /\ l.t1 = chal.args.B - l.k * ModExpRef(grp.g, l.x, grp.N)
           /\ l.t2 = chal.args.a + l.u * l.x
           /\ l.S \in 0..(grp.N - 1)
           /\ l.S = ModExpRef(NonNegMod(l.t1, grp.N), l.t2, grp.N)

C8_Witness ==
    /\ chal # None
    /\ chal.res.exc = "none"
    /\ chal.res.locals.t1 < 0
    /\ chal.res.locals.t2 > grp.N
    /\ chal.res.locals.S > 1

\* C9: generate_a_pair returns a, the big-endian integer of 32 random bytes,
\* and A = g^a mod N, which lies in 1..N-1 for every draw, a = 0 included.
C9_PublicKeyInRange ==
    keys # None =>
        /\ Len(rand) = 32
        /\ \A i \in 1..Len(rand) : rand[i] \in 0..255
        /\ keys.a = ToInt(rand)
        /\ keys.A = ModExpRef(grp.g, keys.a, grp.N)
        /\ keys.A \in 1..(grp.N - 1)

C9_Witness ==
    /\ keys # None
    /\ keys.a = 0
    /\ keys.A = 1

\* C10: process_challenge raises SafetyException exactly when B mod N = 0 or
\* u = 0, and otherwise returns (M, session_key), whatever A is.
C10_OnlySafetyChecks ==
    chal # None =>
        /\ chal.res.exc \in {"none", "SafetyException"}
        /\ (chal.res.exc = "SafetyException"
              <=> (chal.args.B % grp.N = 0 \/ chal.res.locals.u = 0))
        /\ (chal.res.exc = "none" <=> chal.res.ret # None)

====
